---- MODULE Spec2Model ----
(***************************************************************************)
(* A model of SecureStorage (src/secure_storage.py): a single encrypted    *)
(* file holding a JSON mapping, read and written through a Fernet cipher   *)
(* whose key is derived from a password.                                   *)
(*                                                                         *)
(* Cryptography is symbolic: a ciphertext block and a MAC are terms that   *)
(* name the key and the data they were made from, so two of them are equal *)
(* exactly when they were made from the same inputs.  The file is a        *)
(* sequence of base64 characters, one per element of the Fernet token,     *)
(* followed by the '=' padding the token's byte length calls for.          *)
(***************************************************************************)
EXTENDS Integers, Sequences, FiniteSets, TLC

VARIABLES
    fernet,   \* self.fernet of the live store object: its cipher's key, or None
    key,      \* self.key of the live store object
    disk,     \* the file at storage_path: [exists, bytes]
    last,     \* the most recent call: operation, arguments, locals, outcome
    passwd,   \* the password the live store object was initialized with, "" if none
    saved,    \* the write that last opened the file: password, key, dict,
              \* completion, and who made it
    flipped,  \* a byte of the file was changed from outside since that write
    seen,     \* the mapping the live store object most recently loaded or saved
    threads,  \* the set_value calls in progress on the live store object
    host      \* the application that owns the store (src/main.py): its
              \* position in start-up and the .env file

vars == <<fernet, key, disk, last, passwd, saved, flipped, seen, threads, host>>

-----------------------------------------------------------------------------
(* Bounds *)

\* distinct (timestamp, IV) pairs Fernet.encrypt may draw
NumNonce == 2
\* the most leading bytes a write that fails part-way leaves in the file
MaxCut == 1

-----------------------------------------------------------------------------
(* The universe of inputs *)

Passwords == {"default_password", "pw"}
DictKeys == {"gemini_api_key", "k2"}

\* Python values: a str, and None
Str(s) == [t |-> "str", s |-> s]
PyNone == [t |-> "none", s |-> ""]
Values == {Str("ABC123"), PyNone}

\* dicts with str keys: functions from a set of keys to values
Dicts == UNION {[D -> Values] : D \in SUBSET DictKeys}
EmptyDict == <<>>

\* self.fernet / self.key before initialize
None == <<>>

-----------------------------------------------------------------------------
(* json.dumps / json.loads on dicts of the universe.  The text is a        *)
(* sequence of lexical tokens.                                             *)

Punct(c) == [t |-> "punct", s |-> c]
JStr(s) == [t |-> "jstr", s |-> s]
JNull == [t |-> "lit", s |-> "null"]

\* the order in which a dict's keys are emitted
KeyOrder == <<"gemini_api_key", "k2">>

DumpValue(v) == IF v.t = "none" THEN JNull ELSE JStr(v.s)

RECURSIVE DumpMembers(_, _, _)
DumpMembers(d, i, first) ==
    IF i > Len(KeyOrder) THEN <<>>
    ELSE IF KeyOrder[i] \in DOMAIN d
         THEN (IF first THEN <<>> ELSE <<Punct(", ")>>)
              \o <<JStr(KeyOrder[i]), Punct(": "), DumpValue(d[KeyOrder[i]])>>
              \o DumpMembers(d, i + 1, FALSE)
         ELSE DumpMembers(d, i + 1, first)

\* json.dumps(data)
Dumps(d) == <<Punct("{")>> \o DumpMembers(d, 1, TRUE) \o <<Punct("}")>>

\* len(json_data.encode()): the bytes of the text
TokBytes(tok) ==
    IF tok.t = "jstr" THEN Len(tok.s) + 2 ELSE Len(tok.s)

RECURSIVE TextBytes(_)
TextBytes(txt) ==
    IF txt = <<>> THEN 0 ELSE TokBytes(Head(txt)) + TextBytes(Tail(txt))

ParseFail == [ok |-> FALSE, val |-> EmptyDict]

IsValueTok(tok) == tok.t = "jstr" \/ tok = JNull
ParseValue(tok) == IF tok = JNull THEN PyNone ELSE Str(tok.s)

\* d[k] = v on a dict
Put(d, k, v) == [x \in (DOMAIN d) \cup {k} |-> IF x = k THEN v ELSE d[x]]
\* del d[k]
Del(d, k) == [x \in (DOMAIN d) \ {k} |-> d[x]]

RECURSIVE ParseMembers(_, _, _)
ParseMembers(txt, i, acc) ==
    IF i + 3 > Len(txt) THEN ParseFail
    ELSE IF txt[i].t # "jstr" \/ txt[i + 1] # Punct(": ") \/ ~IsValueTok(txt[i + 2])
         THEN ParseFail
    ELSE LET acc2 == Put(acc, txt[i].s, ParseValue(txt[i + 2]))
         IN  IF txt[i + 3] = Punct("}")
             THEN (IF i + 3 = Len(txt) THEN [ok |-> TRUE, val |-> acc2]
                   ELSE ParseFail)
             ELSE IF txt[i + 3] = Punct(", ") THEN ParseMembers(txt, i + 4, acc2)
             ELSE ParseFail

\* json.loads(text): ok = FALSE is JSONDecodeError
Loads(txt) ==
    IF Len(txt) < 2 \/ txt[1] # Punct("{") THEN ParseFail
    ELSE IF txt[2] = Punct("}")
         THEN (IF Len(txt) = 2 THEN [ok |-> TRUE, val |-> EmptyDict] ELSE ParseFail)
    ELSE ParseMembers(txt, 2, EmptyDict)

-----------------------------------------------------------------------------
(* Key derivation and the Fernet cipher *)

\* faulty variant: the key does not depend on the password
_get_key_fixed(password) ==
    <<"PBKDF2HMAC-SHA256", "notes_organizer_salt", "urlsafe_b64", "">>

\* PBKDF2-HMAC-SHA256 with the fixed salt: a term naming its inputs
_get_key(password) ==
    <<"PBKDF2HMAC-SHA256", "notes_organizer_salt", "urlsafe_b64", password>>

\* One element of a Fernet token.  t: "hdr" (version, timestamp and IV),
\* "ct" (an AES-CBC block), "mac" (the HMAC over all that precedes it) or
\* "junk" (bytes no encryption produced).  k: the key used; n: the nonce;
\* i: the block's index; d: what it was made from.
Elem(t, k, n, i, d) == [t |-> t, k |-> k, n |-> n, i |-> i, d |-> d]
Hdr(n) == Elem("hdr", None, n, 0, <<>>)
Ct(k, n, i, txt) == Elem("ct", k, n, i, txt)
Mac(k, body) == Elem("mac", k, 0, 0, body)
Junk == Elem("junk", None, 0, 0, <<>>)

\* PKCS7 always pads: a text of b bytes fills b \div 16 + 1 blocks of 16 bytes
Blocks(txt) == (TextBytes(txt) \div 16) + 1

TokenBody(k, n, txt) == <<Hdr(n)>> \o [i \in 1..Blocks(txt) |-> Ct(k, n, i, txt)]

\* the bytes of Fernet(k).encrypt(txt) before their base64 encoding
Token(k, n, txt) == TokenBody(k, n, txt) \o <<Mac(k, TokenBody(k, n, txt))>>

InvalidToken == [ok |-> FALSE, txt |-> <<>>]

\* Fernet(k).decrypt on decoded bytes: the HMAC is verified first, then the
\* blocks are decrypted and unpadded
DecryptToken(k, tok) ==
    IF Len(tok) < 2 \/ tok[1].t # "hdr" THEN InvalidToken
    ELSE IF tok[Len(tok)] # Mac(k, SubSeq(tok, 1, Len(tok) - 1)) THEN InvalidToken
    ELSE LET cts == SubSeq(tok, 2, Len(tok) - 1)
         IN  IF cts = <<>> THEN InvalidToken
             ELSE IF \A j \in 1..Len(cts) :
                        cts[j] = Ct(k, tok[1].n, j, cts[1].d)
                     /\ Len(cts) = Blocks(cts[1].d)
                  THEN [ok |-> TRUE, txt |-> cts[1].d]
                  ELSE InvalidToken

-----------------------------------------------------------------------------
(* base64.urlsafe_b64encode / urlsafe_b64decode, as Fernet applies them.   *)
(* A character of the file is a data character carrying one element of the *)
(* token (and, in the last data character of a padded encoding, bits lo    *)
(* that encode nothing), a pad character '=', or a character outside the   *)
(* alphabet.                                                               *)

DataChar(c, lo) == [a |-> "data", c |-> c, lo |-> lo]
PadChar == [a |-> "pad", c |-> Junk, lo |-> 0]
OtherChar == [a |-> "other", c |-> Junk, lo |-> 0]

\* '=' characters after n elements: the token is 25 + 16 * blocks + 32 bytes,
\* so its length mod 3 is that of n + 1
PadFor(n) == (3 - ((n + 1) % 3)) % 3

B64Encode(tok) ==
    [i \in 1..Len(tok) |-> DataChar(tok[i], 0)]
    \o [i \in 1..PadFor(Len(tok)) |-> PadChar]

IsData(ch) == ch.a = "data"

DecodeError == [ok |-> FALSE, tok |-> <<>>]

\* the decoder is lenient: it drops characters outside the alphabet, stops
\* at the padding, and ignores the unused bits of the last data character;
\* it fails when the padding does not complete the last group
B64Decode(chars) ==
    LET pads == {i \in 1..Len(chars) : chars[i].a = "pad"}
        stop == IF pads = {} THEN Len(chars) + 1
                ELSE CHOOSE i \in pads : \A j \in pads : i <= j
        alpha == SelectSeq(SubSeq(chars, 1, stop - 1), IsData)
        need == PadFor(Len(alpha))
    IN  IF Cardinality(pads) < need THEN DecodeError
        ELSE [ok |-> TRUE,
              tok |-> [i \in 1..Len(alpha) |->
                         IF alpha[i].lo = 0 \/ (i = Len(alpha) /\ need > 0)
                         THEN alpha[i].c ELSE Junk]]

\* self.fernet.encrypt(json_data.encode())
FernetEncrypt(k, n, txt) == B64Encode(Token(k, n, txt))

\* self.fernet.decrypt(encrypted_data)
FernetDecrypt(k, chars) ==
    LET dec == B64Decode(chars)
    IN  IF ~dec.ok THEN InvalidToken ELSE DecryptToken(k, dec.tok)

-----------------------------------------------------------------------------
(* The file system *)

Nonces == 1..NumNonce

\* what the environment does to one open-and-write: it succeeds; open raises
\* (permission denied, no such directory) and the file is untouched; or the
\* file is opened, which truncates it, and the write raises after cut bytes
\* (disk full)
IOs == {[kind |-> "ok", cut |-> 0], [kind |-> "open_fails", cut |-> 0]}
       \cup {[kind |-> "write_fails", cut |-> c] : c \in 0..MaxCut}

NoFaults == {[kind |-> "ok", cut |-> 0]}

\* the nonces that make a difference to a write under io: one stands for
\* all when no byte of the token reaches the file
NoncesFor(io) ==
    IF io.kind = "open_fails" \/ (io.kind = "write_fails" /\ io.cut = 0)
    THEN {1} ELSE Nonces

Min(a, b) == IF a <= b THEN a ELSE b

NoFile == [exists |-> FALSE, bytes |-> <<>>]
File(bytes) == [exists |-> TRUE, bytes |-> bytes]

\* the outcome of a call: its status ("ok", or the exception it raised), the
\* disk it leaves, what it returns (ret: a dict, val: a value), the dict its
\* own load_data returned (loaded), and its write: how many times it opened
\* the file for writing (attempts), whether the open succeeded (opened), the
\* bytes (enc) and the dict (wdata) it was writing, and whether the
\* environment made the open or the write raise (fault)
Outcome(d) ==
    [status |-> "ok", disk |-> d, ret |-> EmptyDict, val |-> PyNone,
     loaded |-> EmptyDict, attempts |-> 0, opened |-> FALSE, enc |-> <<>>,
     wdata |-> EmptyDict, fault |-> FALSE]

\* with open(self.storage_path, 'wb') as f: f.write(encrypted_data)
WriteFile(d, enc, io) ==
    IF io.kind = "open_fails" THEN [status |-> "IOError", disk |-> d, opened |-> FALSE]
    ELSE IF io.kind = "write_fails"
         THEN [status |-> "IOError", opened |-> TRUE,
               disk |-> File(SubSeq(enc, 1, Min(io.cut, Len(enc) - 1)))]
    ELSE [status |-> "ok", disk |-> File(enc), opened |-> TRUE]

-----------------------------------------------------------------------------
(* The methods of SecureStorage, as functions of the object's cipher f, the *)
(* disk d, the arguments and the environment's choices (nonce n, I/O io)    *)

\* faulty variant: the file is opened with 'ab', so the bytes are appended
save_data_append(f, d, data, n, io) ==
    IF f = None THEN [Outcome(d) EXCEPT !.status = "NotInitialized"]
    ELSE LET encrypted_data == FernetEncrypt(f, n, Dumps(data))
             w == WriteFile(d, encrypted_data, io)
         IN  [Outcome(d) EXCEPT !.status = w.status,
                                !.disk = IF w.opened
                                         THEN File(d.bytes \o w.disk.bytes)
                                         ELSE d,
                                !.attempts = 1, !.opened = w.opened,
                                !.enc = encrypted_data, !.wdata = data,
                                !.fault = io.kind # "ok"]

\* faulty variant: the key is written in clear in front of the token
save_data_keyfile(f, d, data, n, io) ==
    IF f = None THEN [Outcome(d) EXCEPT !.status = "NotInitialized"]
    ELSE LET encrypted_data == <<DataChar(Elem("clear", None, 0, 0, f), 0)>>
                               \o FernetEncrypt(f, n, Dumps(data))
             w == WriteFile(d, encrypted_data, io)
         IN  [Outcome(d) EXCEPT !.status = w.status, !.disk = w.disk,
                                !.attempts = 1, !.opened = w.opened,
                                !.enc = encrypted_data, !.wdata = data,
                                !.fault = io.kind # "ok"]

\* faulty variant: the write is wrapped in try/except and the error dropped
save_data_swallow(f, d, data, n, io) ==
    IF f = None THEN [Outcome(d) EXCEPT !.status = "NotInitialized"]
    ELSE LET encrypted_data == FernetEncrypt(f, n, Dumps(data))
             w == WriteFile(d, encrypted_data, io)
         IN  [Outcome(d) EXCEPT !.status = "ok", !.disk = w.disk,
                                !.attempts = 1, !.opened = w.opened,
                                !.enc = encrypted_data, !.wdata = data,
                                !.fault = io.kind # "ok"]

save_data(f, d, data, n, io) ==
    IF f = None THEN [Outcome(d) EXCEPT !.status = "NotInitialized"]
    ELSE LET encrypted_data == FernetEncrypt(f, n, Dumps(data))
             w == WriteFile(d, encrypted_data, io)
         IN  [Outcome(d) EXCEPT !.status = w.status, !.disk = w.disk,
                                !.attempts = 1, !.opened = w.opened,
                                !.enc = encrypted_data, !.wdata = data,
                                !.fault = io.kind # "ok"]

\* faulty variant: the check of self.fernet is missing
load_data_unguarded(f, d) ==
    IF ~d.exists THEN Outcome(d)
    ELSE LET decrypted_data == FernetDecrypt(f, d.bytes)
         IN  IF ~decrypted_data.ok THEN Outcome(d)
             ELSE LET parsed == Loads(decrypted_data.txt)
                  IN  IF ~parsed.ok THEN Outcome(d)
                      ELSE [Outcome(d) EXCEPT !.ret = parsed.val]

\* faulty variant: the object keeps the dict it last loaded or saved and
\* answers from it
load_data_cached(f, d) ==
    IF f = None THEN [Outcome(d) EXCEPT !.status = "NotInitialized"]
    ELSE IF seen.has THEN [Outcome(d) EXCEPT !.ret = seen.data]
    ELSE IF ~d.exists THEN Outcome(d)
    ELSE LET decrypted_data == FernetDecrypt(f, d.bytes)
         IN  IF ~decrypted_data.ok THEN Outcome(d)
             ELSE LET parsed == Loads(decrypted_data.txt)
                  IN  IF ~parsed.ok THEN Outcome(d)
                      ELSE [Outcome(d) EXCEPT !.ret = parsed.val]

\* faulty variant: a file that does not decrypt is removed
load_data_repair(f, d) ==
    IF f = None THEN [Outcome(d) EXCEPT !.status = "NotInitialized"]
    ELSE IF ~d.exists THEN Outcome(d)
    ELSE LET decrypted_data == FernetDecrypt(f, d.bytes)
         IN  IF ~decrypted_data.ok THEN Outcome(NoFile)
             ELSE LET parsed == Loads(decrypted_data.txt)
                  IN  IF ~parsed.ok THEN Outcome(d)
                      ELSE [Outcome(d) EXCEPT !.ret = parsed.val]

\* faulty variant: no try/except, so InvalidToken and JSONDecodeError escape
load_data_raises(f, d) ==
    IF f = None THEN [Outcome(d) EXCEPT !.status = "NotInitialized"]
    ELSE IF ~d.exists THEN Outcome(d)
    ELSE LET decrypted_data == FernetDecrypt(f, d.bytes)
         IN  IF ~decrypted_data.ok
             THEN [Outcome(d) EXCEPT !.status = "InvalidToken"]
             ELSE LET parsed == Loads(decrypted_data.txt)
                  IN  IF ~parsed.ok
                      THEN [Outcome(d) EXCEPT !.status = "JSONDecodeError"]
                      ELSE [Outcome(d) EXCEPT !.ret = parsed.val]

\* faulty variant: only InvalidToken is caught, so a JSONDecodeError escapes
load_data_strict(f, d) ==
    IF f = None THEN [Outcome(d) EXCEPT !.status = "NotInitialized"]
    ELSE IF ~d.exists THEN Outcome(d)
    ELSE LET decrypted_data == FernetDecrypt(f, d.bytes)
         IN  IF ~decrypted_data.ok THEN Outcome(d)
             ELSE LET parsed == Loads(decrypted_data.txt)
                  IN  IF ~parsed.ok
                      THEN [Outcome(d) EXCEPT !.status = "JSONDecodeError"]
                      ELSE [Outcome(d) EXCEPT !.ret = parsed.val]

load_data(f, d) ==
    IF f = None THEN [Outcome(d) EXCEPT !.status = "NotInitialized"]
    ELSE IF ~d.exists THEN Outcome(d)
    ELSE LET decrypted_data == FernetDecrypt(f, d.bytes)
         IN  IF ~decrypted_data.ok THEN Outcome(d)
             ELSE LET parsed == Loads(decrypted_data.txt)
                  IN  IF ~parsed.ok THEN Outcome(d)
                      ELSE [Outcome(d) EXCEPT !.ret = parsed.val]

\* faulty variant: data.get(key) or default, which drops a stored null
get_value_falsy(f, d, k, default) ==
    LET data == load_data(f, d)
    IN  IF data.status # "ok" THEN data
        ELSE [Outcome(d) EXCEPT !.loaded = data.ret,
                                !.val = IF k \in DOMAIN data.ret
                                           /\ data.ret[k] # PyNone
                                        THEN data.ret[k] ELSE default]

get_value(f, d, k, default) ==
    LET data == load_data(f, d)
    IN  IF data.status # "ok" THEN data
        ELSE [Outcome(d) EXCEPT !.loaded = data.ret,
                                !.val = IF k \in DOMAIN data.ret
                                        THEN data.ret[k] ELSE default]

\* faulty variant: the loaded dict is not the one that is updated and saved
set_value_fresh(f, d, k, v, n, io) ==
    LET data == load_data(f, d)
    IN  IF data.status # "ok" THEN data
        ELSE [save_data(f, d, Put(EmptyDict, k, v), n, io)
                EXCEPT !.loaded = data.ret]

\* faulty variant: a file that exists and does not decrypt is not overwritten
set_value_checked(f, d, k, v, n, io) ==
    LET data == load_data(f, d)
    IN  IF data.status # "ok" THEN data
        ELSE IF d.exists /\ ~FernetDecrypt(f, d.bytes).ok
             THEN [Outcome(d) EXCEPT !.status = "InvalidToken"]
        ELSE [save_data(f, d, Put(data.ret, k, v), n, io)
                EXCEPT !.loaded = data.ret]

set_value(f, d, k, v, n, io) ==
    LET data == load_data(f, d)
    IN  IF data.status # "ok" THEN data
        ELSE [save_data(f, d, Put(data.ret, k, v), n, io)
                EXCEPT !.loaded = data.ret]

\* faulty variant: data.pop(key, None) followed by an unconditional save
delete_value_always(f, d, k, n, io) ==
    LET data == load_data(f, d)
    IN  IF data.status # "ok" THEN data
        ELSE [save_data(f, d, Del(data.ret, k), n, io)
                EXCEPT !.loaded = data.ret]

\* faulty variant: the dict that is saved is a new one, not the loaded one
delete_value_clear(f, d, k, n, io) ==
    LET data == load_data(f, d)
    IN  IF data.status # "ok" THEN data
        ELSE IF k \in DOMAIN data.ret
             THEN [save_data(f, d, EmptyDict, n, io)
                     EXCEPT !.loaded = data.ret]
             ELSE [Outcome(d) EXCEPT !.loaded = data.ret]

delete_value(f, d, k, n, io) ==
    LET data == load_data(f, d)
    IN  IF data.status # "ok" THEN data
        ELSE IF k \in DOMAIN data.ret
             THEN [save_data(f, d, Del(data.ret, k), n, io)
                     EXCEPT !.loaded = data.ret]
             ELSE [Outcome(d) EXCEPT !.loaded = data.ret]

\* faulty variant: the save is skipped when the loaded dict is already empty
clear_storage_guarded(f, d, n, io) ==
    LET data == load_data(f, d)
    IN  IF data.status # "ok" THEN data
        ELSE IF data.ret # EmptyDict THEN save_data(f, d, EmptyDict, n, io)
             ELSE Outcome(d)

clear_storage(f, d, n, io) == save_data(f, d, EmptyDict, n, io)

\* faulty variant: the empty store is written whether or not a file exists
initialize_always(f, d, n, io) == save_data(f, d, EmptyDict, n, io)

\* faulty variant: the missing file is not created
initialize_nocreate(f, d, n, io) == Outcome(d)

\* the part of initialize after self.key and self.fernet are assigned
initialize(f, d, n, io) ==
    IF ~d.exists THEN save_data(f, d, EmptyDict, n, io) ELSE Outcome(d)

-----------------------------------------------------------------------------
(* The state machine.  One store object is live at a time; constructing a   *)
(* new one (a new process, or a second object on the same path) replaces it *)

\* by: "live" (the live store object), "earlier" (a store object since
\* replaced), "other" (another store object or program on the same path);
\* stale: when another object made the write, the live object had loaded or
\* saved a different mapping
NoWrite ==
    [password |-> "", key |-> None, data |-> EmptyDict, complete |-> FALSE,
     by |-> "none", stale |-> FALSE]

NotSeen == [has |-> FALSE, data |-> EmptyDict]
Seen(m) == [has |-> TRUE, data |-> m]

Call(op, pw, k, v, data, r) ==
    [op |-> op, password |-> pw, k |-> k, v |-> v,
     data |-> data, status |-> r.status, ret |-> r.ret, val |-> r.val,
     loaded |-> r.loaded, attempts |-> r.attempts, opened |-> r.opened,
     fault |-> r.fault, before |-> ""]
\* before: for initialize, the password the object held when called; for
\* set_value, delete_value and clear_storage, what the file was to the
\* object when called

NoCall == Call("none", "", "", PyNone, EmptyDict, Outcome(NoFile))

\* what the object has in hand after a call: the dict it was saving, or the
\* dict it loaded
Held(r, loaded) ==
    IF r.status = "NotInitialized" THEN seen
    ELSE IF r.attempts > 0 THEN Seen(r.wdata) ELSE Seen(loaded)

\* the effect of a call's outcome on the disk
Commit(f, r) ==
    /\ UNCHANGED threads
    /\ disk' = r.disk
    /\ IF r.opened
       THEN /\ saved' = [password |-> passwd', key |-> f, data |-> r.wdata,
                         complete |-> r.status = "ok", by |-> "live",
                         stale |-> FALSE]
            /\ flipped' = FALSE
       ELSE UNCHANGED <<saved, flipped>>

\* a call that opens no file makes no use of the nonce or the I/O outcome
Used(r, n, io) == r.attempts = 0 => (n = 1 /\ io.kind = "ok")

\* what the file is to the live store object
FileKind ==
    IF ~disk.exists THEN "absent"
    ELSE IF flipped
         THEN (IF FernetDecrypt(fernet, disk.bytes).ok THEN "tampered_readable"
               ELSE "tampered")
    ELSE IF saved.password # passwd THEN "other_password"
    ELSE IF ~saved.complete THEN "incomplete"
    ELSE IF saved.data = EmptyDict THEN "empty" ELSE "mapping"

\* the threads that may call set_value on the live store object at once
Threads == {1, 2}

\* a thread's position in set_value, its arguments, its local dict, the
\* dict its load_data returned, and how its call ended
Idle == [pc |-> "idle", key |-> "", value |-> PyNone, data |-> EmptyDict,
         loaded |-> EmptyDict, status |-> "ok"]

\* the .env file: whether it exists, and its GEMINI_API_KEY line as the
\* list line.split("=") gives (<<>> when the file has no such line)
NoEnv == [exists |-> FALSE, line |-> <<>>]
Env(line) == [exists |-> TRUE, line |-> line]

\* the application before it is first started.  orig: the API key the
\* user's .env holds; stored: a set_value of the migration has returned
\* normally; gen_ai: the key the AI client was created with
NoHost == [pc |-> "off", env |-> NoEnv, orig |-> "", stored |-> FALSE,
           gen_ai |-> PyNone]

Init ==
    /\ fernet = None
    /\ key = None
    /\ disk = NoFile
    /\ last = NoCall
    /\ passwd = ""
    /\ saved = NoWrite
    /\ flipped = FALSE
    /\ seen = NotSeen
    /\ threads = [t \in Threads |-> Idle]
    /\ host = NoHost

\* SecureStorage(): __init__
Construct ==
    /\ last.op # "__init__"
    /\ fernet' = None
    /\ key' = None
    /\ passwd' = ""
    /\ UNCHANGED host
    /\ last' = Call("__init__", "", "", PyNone, EmptyDict, Outcome(NoFile))
    /\ saved' = [saved EXCEPT !.by = IF @ = "live" THEN "earlier" ELSE @,
                              !.stale = FALSE]
    /\ seen' = NotSeen
    /\ UNCHANGED <<disk, flipped, threads>>

\* faulty variant: the salt is drawn when the object derives its key, so
\* the key is not a function of the password alone
Initialize_salted(ios) ==
    \E pw \in Passwords, io \in ios : \E n \in NoncesFor(io) :
      \E salt \in {"notes_organizer_salt", "os.urandom(16)"} :
        \E k \in {[_get_key(pw) EXCEPT ![2] = salt]} :
          \E r \in {initialize(k, disk, n, io)} :
            /\ Used(r, n, io)
            /\ key' = k
            /\ fernet' = k
            /\ passwd' = pw
            /\ Commit(k, r)
            /\ seen' = IF r.attempts > 0 THEN Seen(r.wdata) ELSE NotSeen
            /\ UNCHANGED host
            /\ last' = [Call("initialize", pw, "", PyNone, EmptyDict, r)
                          EXCEPT !.before = passwd]

\* faulty variant: the key and the cipher are assigned after the file is
\* created, so a failed creation leaves the object as it was
Initialize_atomic(ios) ==
    \E pw \in Passwords, io \in ios : \E n \in NoncesFor(io) :
        \E r \in {initialize(_get_key(pw), disk, n, io)} :
            /\ Used(r, n, io)
            /\ key' = IF r.status = "ok" THEN _get_key(pw) ELSE key
            /\ fernet' = IF r.status = "ok" THEN _get_key(pw) ELSE fernet
            /\ passwd' = IF r.status = "ok" THEN pw ELSE passwd
            /\ Commit(_get_key(pw), r)
            /\ seen' = IF r.attempts > 0 THEN Seen(r.wdata) ELSE NotSeen
            /\ UNCHANGED host
            /\ last' = [Call("initialize", pw, "", PyNone, EmptyDict, r)
                          EXCEPT !.before = passwd]

\* faulty variant: an object that holds a cipher keeps it
Initialize_keep(ios) ==
    \E pw \in Passwords, io \in ios : \E n \in NoncesFor(io) :
      \E k \in {IF fernet = None THEN _get_key(pw) ELSE fernet} :
        \E r \in {initialize(k, disk, n, io)} :
            /\ Used(r, n, io)
            /\ key' = k
            /\ fernet' = k
            /\ passwd' = pw
            /\ Commit(k, r)
            /\ seen' = IF r.attempts > 0 THEN Seen(r.wdata) ELSE NotSeen
            /\ UNCHANGED host
            /\ last' = [Call("initialize", pw, "", PyNone, EmptyDict, r)
                          EXCEPT !.before = passwd]

Initialize(ios) ==
    \E pw \in Passwords, io \in ios : \E n \in NoncesFor(io) :
        \E r \in {initialize(_get_key(pw), disk, n, io)} :
            /\ Used(r, n, io)
            /\ key' = _get_key(pw)
            /\ fernet' = _get_key(pw)
            /\ passwd' = pw
            /\ Commit(_get_key(pw), r)
            /\ seen' = IF r.attempts > 0 THEN Seen(r.wdata) ELSE NotSeen
            /\ UNCHANGED host
            /\ last' = [Call("initialize", pw, "", PyNone, EmptyDict, r)
                          EXCEPT !.before = passwd]

SaveData(ios) ==
    \E data \in Dicts, io \in ios : \E n \in NoncesFor(io) :
        \E r \in {save_data(fernet, disk, data, n, io)} :
            /\ Used(r, n, io)
            /\ UNCHANGED <<fernet, key, passwd>>
            /\ Commit(fernet, r)
            /\ seen' = Held(r, EmptyDict)
            /\ UNCHANGED host
            /\ last' = Call("save_data", "", "", PyNone, data, r)

LoadData ==
    \E r \in {load_data(fernet, disk)} :
        /\ UNCHANGED <<fernet, key, passwd>>
        /\ Commit(fernet, r)
        /\ seen' = Held(r, r.ret)
        /\ UNCHANGED host
        /\ last' = Call("load_data", "", "", PyNone, EmptyDict, r)

GetValue ==
    \E k \in DictKeys, default \in Values :
        \E r \in {get_value(fernet, disk, k, default)} :
            /\ UNCHANGED <<fernet, key, passwd>>
            /\ Commit(fernet, r)
            /\ seen' = Held(r, r.loaded)
            /\ UNCHANGED host
            /\ last' = Call("get_value", "", k, default, EmptyDict, r)

SetValue(ios) ==
    \E k \in DictKeys, v \in Values, io \in ios : \E n \in NoncesFor(io) :
        \E r \in {set_value(fernet, disk, k, v, n, io)} :
            /\ Used(r, n, io)
            /\ UNCHANGED <<fernet, key, passwd>>
            /\ Commit(fernet, r)
            /\ seen' = Held(r, r.loaded)
            /\ UNCHANGED host
            /\ last' = [Call("set_value", "", k, v, EmptyDict, r)
                          EXCEPT !.before = FileKind]

DeleteValue(ios) ==
    \E k \in DictKeys, io \in ios : \E n \in NoncesFor(io) :
        \E r \in {delete_value(fernet, disk, k, n, io)} :
            /\ Used(r, n, io)
            /\ UNCHANGED <<fernet, key, passwd>>
            /\ Commit(fernet, r)
            /\ seen' = Held(r, r.loaded)
            /\ UNCHANGED host
            /\ last' = [Call("delete_value", "", k, PyNone, EmptyDict, r)
                          EXCEPT !.before = FileKind]

\* faulty variant: clear_storage also drops the cipher
ClearStorage_reset(ios) ==
    \E io \in ios : \E n \in NoncesFor(io) :
        \E r \in {clear_storage(fernet, disk, n, io)} :
            /\ Used(r, n, io)
            /\ fernet' = None
            /\ key' = None
            /\ passwd' = ""
            /\ Commit(fernet, r)
            /\ seen' = Held(r, EmptyDict)
            /\ UNCHANGED host
            /\ last' = [Call("clear_storage", "", "", PyNone, EmptyDict, r)
                          EXCEPT !.before = FileKind]

ClearStorage(ios) ==
    \E io \in ios : \E n \in NoncesFor(io) :
        \E r \in {clear_storage(fernet, disk, n, io)} :
            /\ Used(r, n, io)
            /\ UNCHANGED <<fernet, key, passwd>>
            /\ Commit(fernet, r)
            /\ seen' = Held(r, EmptyDict)
            /\ UNCHANGED host
            /\ last' = [Call("clear_storage", "", "", PyNone, EmptyDict, r)
                          EXCEPT !.before = FileKind]

\* the characters one byte of the file can be changed into
Replacements(ch) ==
    ({PadChar, OtherChar, DataChar(Junk, 0)}
     \cup (IF ch.a = "data" THEN {DataChar(ch.c, 1 - ch.lo)} ELSE {})) \ {ch}

\* something other than the store changes one byte of a file the store
\* has written completely
Tamper ==
    /\ disk.exists
    /\ saved.complete
    /\ ~flipped
    /\ \E i \in 1..Len(disk.bytes) :
           \E ch \in Replacements(disk.bytes[i]) :
               disk' = [disk EXCEPT !.bytes[i] = ch]
    /\ flipped' = TRUE
    /\ UNCHANGED host
    /\ last' = Call("tamper", "", "", PyNone, EmptyDict, Outcome(NoFile))
    /\ UNCHANGED <<fernet, key, passwd, saved, seen, threads>>

\* something other than the store removes the file
RemoveFile ==
    /\ disk.exists
    /\ disk' = NoFile
    /\ flipped' = FALSE
    /\ UNCHANGED host
    /\ last' = Call("remove", "", "", PyNone, EmptyDict, Outcome(NoFile))
    /\ UNCHANGED <<fernet, key, passwd, saved, seen, threads>>

\* another SecureStorage object on the same path, initialized with pw,
\* completes a save_data(data)
OtherSave ==
    \E pw \in Passwords, data \in Dicts, n \in Nonces :
        \E r \in {save_data(_get_key(pw), disk, data, n, [kind |-> "ok", cut |-> 0])} :
            /\ disk' = r.disk
            /\ saved' = [password |-> pw, key |-> _get_key(pw), data |-> data,
                         complete |-> TRUE, by |-> "other",
                         stale |-> seen.has /\ seen.data # data]
            /\ flipped' = FALSE
            /\ UNCHANGED host
            /\ last' = Call("other_save", pw, "", PyNone, data, Outcome(NoFile))
            /\ UNCHANGED <<fernet, key, passwd, seen, threads>>

\* plaintexts that are not JSON documents: '{' and '{"k2"}'
Malformed == {<<Punct("{")>>, <<Punct("{"), JStr("k2"), Punct("}")>>}

\* a program that derives the same key from pw writes a token whose
\* plaintext is not JSON
ForeignWrite ==
    \E pw \in Passwords, txt \in Malformed :
        /\ disk' = File(FernetEncrypt(_get_key(pw), 1, txt))
        /\ saved' = [password |-> pw, key |-> _get_key(pw), data |-> EmptyDict,
                     complete |-> FALSE, by |-> "other", stale |-> FALSE]
        /\ flipped' = FALSE
        /\ UNCHANGED host
        /\ last' = Call("foreign_write", pw, "", PyNone, EmptyDict, Outcome(NoFile))
        /\ UNCHANGED <<fernet, key, passwd, seen, threads>>

AllIdle == \A t \in Threads : threads[t].pc = "idle"
AllDone == \A t \in Threads : threads[t].pc = "done"

\* thread t calls set_value(k, v) and runs data = self.load_data();
\* data[key] = value
SetValueLoad(t) ==
    /\ threads[t].pc = "idle"
    /\ \E k \in DictKeys, v \in Values :
         \E r \in {load_data(fernet, disk)} :
            threads' = [threads EXCEPT ![t] =
                IF r.status # "ok"
                THEN [Idle EXCEPT !.pc = "done", !.key = k, !.value = v,
                                  !.status = r.status]
                ELSE [Idle EXCEPT !.pc = "open", !.key = k, !.value = v,
                                  !.loaded = r.ret,
                                  !.data = Put(r.ret, k, v)]]
    /\ UNCHANGED <<fernet, key, disk, last, passwd, saved, flipped, seen, host>>

\* faulty variant: the dict is loaded again right before the file is opened
SetValueOpen_reload(t) ==
    /\ threads[t].pc = "open"
    /\ threads' = [threads EXCEPT ![t].pc = "write",
                       ![t].data = Put(load_data(fernet, disk).ret,
                                       threads[t].key, threads[t].value)]
    /\ disk' = File(<<>>)
    /\ saved' = [saved EXCEPT !.complete = FALSE]
    /\ flipped' = FALSE
    /\ UNCHANGED <<fernet, key, last, passwd, seen, host>>

\* thread t, inside save_data, opens the file with 'wb', which truncates it
SetValueOpen(t) ==
    /\ threads[t].pc = "open"
    /\ threads' = [threads EXCEPT ![t].pc = "write"]
    /\ disk' = File(<<>>)
    /\ saved' = [saved EXCEPT !.complete = FALSE]
    /\ flipped' = FALSE
    /\ UNCHANGED <<fernet, key, last, passwd, seen, host>>

\* thread t writes the encryption of its dict at the start of the file and
\* returns
SetValueWrite(t) ==
    /\ threads[t].pc = "write"
    /\ \E n \in Nonces :
         \E enc \in {FernetEncrypt(fernet, n, Dumps(threads[t].data))} :
            disk' = File(enc \o SubSeq(disk.bytes, Len(enc) + 1, Len(disk.bytes)))
    /\ threads' = [threads EXCEPT ![t].pc = "done"]
    /\ saved' = [password |-> passwd, key |-> fernet, data |-> threads[t].data,
                 complete |-> TRUE, by |-> "live", stale |-> FALSE]
    /\ UNCHANGED <<fernet, key, last, passwd, flipped, seen, host>>

-----------------------------------------------------------------------------
(* The start-up of the application, ModernNotepad.__init__ of src/main.py  *)

\* the .env files a user may have: without a GEMINI_API_KEY line, with the
\* line GEMINI_API_KEY=ABC123, and with the line GEMINI_API_KEY=ABC=123
Envs == {Env(<<>>), Env(<<"GEMINI_API_KEY", "ABC123">>),
         Env(<<"GEMINI_API_KEY", "ABC", "123">>)}

RECURSIVE Join(_)
Join(parts) ==
    IF Len(parts) = 1 THEN parts[1]
    ELSE parts[1] \o "=" \o Join(Tail(parts))

\* the value dotenv.load_dotenv gives the variable: all that follows the
\* first '='
EnvValue(line) == Join(Tail(line))

\* api_key = line.split("=")[1].strip(); no value of the universe has
\* white space around it
ApiKeyOf(line) == line[2]

\* the user puts a .env in place before the application is first started
EditEnv ==
    /\ host = NoHost
    /\ last = NoCall
    /\ \E e \in Envs :
          host' = [host EXCEPT !.env = e,
                               !.orig = IF e.line = <<>> THEN ""
                                        ELSE EnvValue(e.line)]
    /\ UNCHANGED <<fernet, key, disk, last, passwd, saved, flipped, seen, threads>>

\* self.secure_storage = SecureStorage(), and the test of the store's file
HostStart ==
    /\ host.pc = "off"
    /\ fernet' = None
    /\ key' = None
    /\ passwd' = ""
    /\ last' = Call("__init__", "", "", PyNone, EmptyDict, Outcome(NoFile))
    /\ saved' = [saved EXCEPT !.by = IF @ = "live" THEN "earlier" ELSE @,
                              !.stale = FALSE]
    /\ seen' = NotSeen
    /\ host' = [host EXCEPT !.pc = IF ~disk.exists THEN "first_run"
                                   ELSE "initialize",
                            !.gen_ai = PyNone]
    /\ UNCHANGED <<disk, flipped, threads>>

\* self.secure_storage.initialize("default_password"), in either branch;
\* an exception ends the branch with a warning
HostInitialize ==
    /\ host.pc \in {"first_run", "initialize"}
    /\ \E io \in IOs : \E n \in NoncesFor(io) :
         \E r \in {initialize(_get_key("default_password"), disk, n, io)} :
            /\ Used(r, n, io)
            /\ key' = _get_key("default_password")
            /\ fernet' = _get_key("default_password")
            /\ passwd' = "default_password"
            /\ Commit(_get_key("default_password"), r)
            /\ seen' = IF r.attempts > 0 THEN Seen(r.wdata) ELSE NotSeen
            /\ last' = [Call("initialize", "default_password", "", PyNone,
                             EmptyDict, r) EXCEPT !.before = passwd]
            /\ host' = [host EXCEPT !.pc =
                            IF host.pc = "first_run" /\ r.status = "ok"
                            THEN "migrate" ELSE "get_value"]

\* there is no .env, or it has no GEMINI_API_KEY line: nothing to migrate
HostNoMigration ==
    /\ host.pc = "migrate"
    /\ ~host.env.exists \/ host.env.line = <<>>
    /\ host' = [host EXCEPT !.pc = "get_value"]
    /\ UNCHANGED <<fernet, key, disk, last, passwd, saved, flipped, seen, threads>>

\* self.secure_storage.set_value("gemini_api_key", api_key); an exception
\* is dropped by the except: pass around the migration
HostMigrate ==
    /\ host.pc = "migrate"
    /\ host.env.exists /\ host.env.line # <<>>
    /\ \E io \in IOs : \E n \in NoncesFor(io) :
         \E v \in {Str(ApiKeyOf(host.env.line))} :
          \E r \in {set_value(fernet, disk, "gemini_api_key", v, n, io)} :
            /\ Used(r, n, io)
            /\ UNCHANGED <<fernet, key, passwd>>
            /\ Commit(fernet, r)
            /\ seen' = Held(r, r.loaded)
            /\ last' = [Call("set_value", "", "gemini_api_key", v, EmptyDict, r)
                          EXCEPT !.before = FileKind]
            /\ host' = [host EXCEPT !.pc = IF r.status = "ok" THEN "remove"
                                           ELSE "get_value",
                                    !.stored = @ \/ r.status = "ok"]

\* os.remove(".env"), which may itself fail; the exception is dropped
HostRemove ==
    /\ host.pc = "remove"
    /\ \E removed \in BOOLEAN :
          host' = [host EXCEPT !.pc = "get_value",
                               !.env = IF removed THEN NoEnv ELSE @]
    /\ UNCHANGED <<fernet, key, disk, last, passwd, saved, flipped, seen, threads>>

\* api_key = self.secure_storage.get_value("gemini_api_key"), and the AI
\* client created when it is not empty
HostGetValue ==
    /\ host.pc = "get_value"
    /\ \E r \in {get_value(fernet, disk, "gemini_api_key", PyNone)} :
            /\ UNCHANGED <<fernet, key, passwd>>
            /\ Commit(fernet, r)
            /\ seen' = Held(r, r.loaded)
            /\ last' = Call("get_value", "", "gemini_api_key", PyNone,
                            EmptyDict, r)
            /\ host' = [host EXCEPT !.pc = "done",
                                    !.gen_ai = IF r.status = "ok" /\ r.val # Str("")
                                               THEN r.val ELSE PyNone]

\* the application is closed; it may be started again
HostQuit ==
    /\ host.pc = "done"
    /\ host' = [host EXCEPT !.pc = "off"]
    /\ UNCHANGED <<fernet, key, disk, last, passwd, saved, flipped, seen, threads>>

\* the store's operations, on a disk whose writes may fail
Next ==
    \/ Construct
    \/ Initialize(IOs)
    \/ SaveData(IOs)
    \/ LoadData
    \/ GetValue
    \/ SetValue(IOs)
    \/ DeleteValue(IOs)
    \/ ClearStorage(IOs)

Spec == Init /\ [][Next]_vars

\* the store's operations on a disk whose writes succeed, and a file that
\* is tampered with or removed
NextTamper ==
    \/ Construct
    \/ Initialize(NoFaults)
    \/ SaveData(NoFaults)
    \/ LoadData
    \/ GetValue
    \/ SetValue(NoFaults)
    \/ DeleteValue(NoFaults)
    \/ ClearStorage(NoFaults)
    \/ Tamper
    \/ RemoveFile

SpecTamper == Init /\ [][NextTamper]_vars

\* the store's operations on a disk whose writes succeed, and a file that
\* other objects and programs write and remove
NextEnv ==
    \/ Construct
    \/ Initialize(NoFaults)
    \/ SaveData(NoFaults)
    \/ LoadData
    \/ GetValue
    \/ SetValue(NoFaults)
    \/ DeleteValue(NoFaults)
    \/ ClearStorage(NoFaults)
    \/ RemoveFile
    \/ OtherSave
    \/ ForeignWrite

SpecEnv == Init /\ [][NextEnv]_vars

\* a store that is initialized and filled by one caller, then used by
\* threads that call set_value with no lock around the calls
NextRace ==
    \/ AllIdle /\ Construct
    \/ AllIdle /\ Initialize(NoFaults)
    \/ AllIdle /\ SaveData(NoFaults)
    \/ \E t \in Threads : SetValueLoad(t)
    \/ \E t \in Threads : SetValueOpen(t)
    \/ \E t \in Threads : SetValueWrite(t)

SpecRace == Init /\ [][NextRace]_vars

\* the application is started, closed and started again, on a disk whose
\* writes may fail
NextHost ==
    \/ EditEnv
    \/ HostStart
    \/ HostInitialize
    \/ HostNoMigration
    \/ HostMigrate
    \/ HostRemove
    \/ HostGetValue
    \/ HostQuit

SpecHost == Init /\ [][NextHost]_vars

-----------------------------------------------------------------------------
(* Properties *)

Accessors == {"load_data", "save_data", "get_value", "set_value",
              "delete_value", "clear_storage"}

\* the file is a complete token of one of the keys
IsBlob(bytes) == \E pw \in Passwords : FernetDecrypt(_get_key(pw), bytes).ok

\* C1: after a successful save_data(m), the next load_data() of the same
\* store returns a mapping equal to m
C1_RoundTrip ==
    (last.op = "save_data" /\ last.status = "ok")
        => /\ load_data(fernet, disk).status = "ok"
           /\ load_data(fernet, disk).ret = last.data

C1_Witness ==
    /\ last.op = "save_data" /\ last.status = "ok"
    /\ DOMAIN last.data = DictKeys
    /\ last.data["k2"] = PyNone
    /\ load_data(fernet, disk).ret = last.data

\* C2: on a store that was never initialized, each accessor fails with the
\* "not initialized" error and leaves the file as it was: not created, not
\* opened for writing, not modified
C2_NotInitialized ==
    [][(fernet = None /\ last'.op \in Accessors)
          => /\ last'.status = "NotInitialized"
             /\ last'.attempts = 0
             /\ disk' = disk]_vars

C2_Witness ==
    /\ fernet = None
    /\ last.op = "set_value" /\ last.status = "NotInitialized"
    /\ disk.exists /\ saved.complete

\* C3: a file written completely under one password, read by a store
\* initialized with another password: load_data() returns {} and raises nothing
C3_WrongPassphrase ==
    (/\ last.op = "initialize" /\ disk.exists
     /\ saved.complete /\ saved.password # passwd)
        => /\ load_data(fernet, disk).status = "ok"
           /\ load_data(fernet, disk).ret = EmptyDict

C3_Witness ==
    /\ last.op = "initialize" /\ disk.exists
    /\ saved.complete /\ saved.password # passwd
    /\ saved.data # EmptyDict
    /\ load_data(fernet, disk).ret = EmptyDict

\* C4: after a successful save of m, once one byte of the file has been
\* changed, load_data() of a store holding the same key returns {} and
\* raises nothing
C4_TamperDetected ==
    (flipped /\ saved.complete /\ fernet # None /\ saved.password = passwd)
        => /\ load_data(fernet, disk).status = "ok"
           /\ load_data(fernet, disk).ret = EmptyDict

\* C5: when a write of save_data fails, the file still holds what the
\* previous complete write put there, and still decrypts to its mapping
C5_PreservedOnFailure ==
    [][(/\ last'.op = "save_data" /\ last'.status = "IOError"
        /\ disk.exists /\ saved.complete /\ ~flipped)
          => /\ disk' = disk
             /\ FernetDecrypt(saved.key, disk'.bytes).ok
             /\ load_data(saved.key, disk').ret = saved.data]_vars

\* C6: the file is always absent or a complete encrypted blob, and whatever
\* it decrypts to under the store's key is the mapping that was last saved
C6_AbsentOrBlob ==
    ~flipped =>
        /\ ~disk.exists \/ IsBlob(disk.bytes)
        /\ (fernet # None /\ FernetDecrypt(fernet, disk.bytes).ok)
              => load_data(fernet, disk).ret = saved.data

\* C7: delete_value(k) of a key that is not in the loaded mapping raises
\* nothing, opens no file for writing, and leaves the file and the mapping
\* it decrypts to as they were
C7_IdempotentDelete ==
    [][(/\ last'.op = "delete_value" /\ fernet # None
        /\ last'.k \notin DOMAIN load_data(fernet, disk).ret)
          => /\ last'.status = "ok"
             /\ last'.attempts = 0
             /\ disk' = disk
             /\ load_data(fernet', disk').ret = load_data(fernet, disk).ret]_vars

C7_Witness ==
    /\ last.op = "delete_value" /\ last.status = "ok"
    /\ last.attempts = 0
    /\ last.loaded # EmptyDict /\ last.k \notin DOMAIN last.loaded
    /\ load_data(fernet, disk).ret = last.loaded

\* C8: once initialize has installed a cipher, no operation on the store
\* object takes it back to the uninitialized state
C8_NoWayBack ==
    [][(fernet # None /\ last'.op # "__init__") => fernet' # None]_vars

C8_Witness ==
    /\ fernet # None
    /\ last.op = "clear_storage" /\ last.status = "IOError"

\* C9: a successful initialize(p) leaves a file on disk, and when it had to
\* create it, the file decrypts under p to the empty mapping and load_data()
\* returns {}
C9_InitializeCreates ==
    (last.op = "initialize" /\ last.status = "ok")
        => /\ disk.exists
           /\ last.attempts = 1
                 => /\ FernetDecrypt(_get_key(last.password), disk.bytes).ok
                    /\ load_data(fernet, disk).status = "ok"
                    /\ load_data(fernet, disk).ret = EmptyDict

C9_Witness ==
    /\ last.op = "initialize" /\ last.status = "ok" /\ last.attempts = 1
    /\ disk.exists
    /\ FernetDecrypt(_get_key(last.password), disk.bytes).ok

\* C10: after a successful set_value(k, v) the stored mapping is the mapping
\* it loaded with k mapped to v: get_value(k) returns v whatever the default,
\* and every other key has the value it had
C10_SetValue ==
    (last.op = "set_value" /\ last.status = "ok")
        => /\ load_data(fernet, disk).ret = Put(last.loaded, last.k, last.v)
           /\ \A default \in Values :
                  get_value(fernet, disk, last.k, default).val = last.v
           /\ \A k \in DOMAIN last.loaded \ {last.k} :
                  get_value(fernet, disk, k, last.v).val = last.loaded[k]

C10_Witness ==
    /\ last.op = "set_value" /\ last.status = "ok"
    /\ DOMAIN last.loaded = DictKeys
    /\ last.loaded[last.k] # last.v
    /\ load_data(fernet, disk).ret = Put(last.loaded, last.k, last.v)

\* C11: get_value(k, d) on an initialized store raises nothing; it returns
\* the value the file's mapping holds for k when k is in it, also when that
\* value is null or equals d, and returns d when k is not in it
C11_GetValue ==
    (last.op = "get_value" /\ fernet # None)
        => /\ last.status = "ok"
           /\ last.attempts = 0
           /\ (saved.complete /\ saved.password = passwd)
                 => last.val = IF last.k \in DOMAIN saved.data
                               THEN saved.data[last.k] ELSE last.v
           /\ (~disk.exists \/ ~saved.complete \/ saved.password # passwd)
                 => last.val = last.v

C11_Witness ==
    /\ last.op = "get_value" /\ last.status = "ok"
    /\ last.k \in DOMAIN saved.data /\ saved.data[last.k] = PyNone
    /\ last.v = Str("ABC123")
    /\ last.val = PyNone

\* C12: after a successful delete_value(k) of a key the loaded mapping
\* holds, the stored mapping is the loaded one without k: get_value(k, d)
\* returns d for every d, and every other key has the value it had
C12_DeletePresent ==
    (/\ last.op = "delete_value" /\ last.status = "ok"
     /\ last.k \in DOMAIN last.loaded)
        => /\ last.attempts = 1
           /\ saved.data = Del(last.loaded, last.k)
           /\ load_data(fernet, disk).ret = Del(last.loaded, last.k)
           /\ \A default \in Values :
                  get_value(fernet, disk, last.k, default).val = default
           /\ \A k \in DOMAIN last.loaded \ {last.k} :
                  \A default \in Values :
                      get_value(fernet, disk, k, default).val = last.loaded[k]

C12_Witness ==
    /\ last.op = "delete_value" /\ last.status = "ok"
    /\ DOMAIN last.loaded = DictKeys
    /\ last.loaded[last.k] = Str("ABC123")
    /\ DOMAIN load_data(fernet, disk).ret = DictKeys \ {last.k}

\* C13: after a clear_storage() that returns normally the file is a complete
\* encryption of {} under the store's key and load_data() returns {},
\* whatever the file was before: a mapping, a file written under another
\* password, a tampered file, or no file; the save is made unconditionally
C13_ClearStorage ==
    (last.op = "clear_storage" /\ last.status = "ok")
        => /\ last.attempts = 1
           /\ disk.exists /\ FernetDecrypt(fernet, disk.bytes).ok
           /\ load_data(fernet, disk).status = "ok"
           /\ load_data(fernet, disk).ret = EmptyDict
           /\ \A k \in DictKeys, default \in Values :
                  get_value(fernet, disk, k, default).val = default

C13_Witness ==
    /\ last.op = "clear_storage" /\ last.status = "ok"
    /\ last.before = "tampered"
    /\ saved.data = EmptyDict /\ saved.complete
    /\ load_data(fernet, disk).ret = EmptyDict

\* C14: load_data() on an initialized store raises nothing and returns {}
\* when the file is missing, when it does not decrypt under the store's key,
\* and when it decrypts to a plaintext that is not JSON
C14_LoadNeverRaises ==
    (last.op = "load_data" /\ fernet # None)
        => /\ last.status = "ok"
           /\ (\/ ~disk.exists
               \/ saved.password # passwd
               \/ (disk.exists /\ ~FernetDecrypt(fernet, disk.bytes).ok)
               \/ (/\ disk.exists /\ FernetDecrypt(fernet, disk.bytes).ok
                   /\ FernetDecrypt(fernet, disk.bytes).txt \in Malformed))
                 => last.ret = EmptyDict

C14_Witness ==
    /\ last.op = "load_data" /\ last.status = "ok" /\ last.ret = EmptyDict
    /\ disk.exists /\ saved.password = passwd
    /\ FernetDecrypt(fernet, disk.bytes).ok
    /\ FernetDecrypt(fernet, disk.bytes).txt \in Malformed

\* C15: a new store object, initialized with the password under which an
\* earlier object completed its last save on the same path, holds the same
\* key as that object and loads exactly the mapping it saved
C15_KeyDeterminism ==
    (/\ last.op = "initialize" /\ saved.by = "earlier"
     /\ saved.complete /\ saved.password = passwd)
        => /\ fernet = saved.key
           /\ load_data(fernet, disk).status = "ok"
           /\ load_data(fernet, disk).ret = saved.data

C15_Witness ==
    /\ last.op = "initialize" /\ saved.by = "earlier"
    /\ saved.complete /\ saved.password = passwd
    /\ DOMAIN saved.data = DictKeys
    /\ load_data(fernet, disk).ret = saved.data

\* C16: initialize on an object that already holds a cipher replaces it by
\* the cipher of the new password: with the file last saved by this object
\* and not written since, load_data() returns {} while the password differs
\* from the one of that save, and the saved mapping once it is the same again
C16_Reinitialize ==
    (/\ last.op = "initialize" /\ last.attempts = 0
     /\ saved.by = "live" /\ saved.complete)
        => /\ fernet = _get_key(last.password)
           /\ key = _get_key(last.password)
           /\ load_data(fernet, disk).status = "ok"
           /\ load_data(fernet, disk).ret =
                  IF saved.password = last.password THEN saved.data
                  ELSE EmptyDict

C16_Witness ==
    /\ last.op = "initialize" /\ last.attempts = 0
    /\ saved.by = "live" /\ saved.complete
    /\ last.before \notin {"", last.password}
    /\ saved.password = last.password
    /\ saved.data # EmptyDict
    /\ load_data(fernet, disk).ret = saved.data

Writers == {"initialize", "save_data", "set_value", "delete_value",
            "clear_storage"}

\* C17: when the open or the write inside save_data fails, the call that
\* made it (save_data, set_value, delete_value, clear_storage or initialize)
\* raises the I/O error after that one attempt; no call makes a second
\* attempt, and a call that returns normally had no failure
C17_WriteFailurePropagates ==
    /\ last.attempts <= 1
    /\ (last.op \in Writers /\ last.fault)
          => /\ last.status = "IOError"
             /\ last.attempts = 1
    /\ (last.op \in Writers /\ last.status = "ok" /\ last.attempts = 1)
          => /\ ~last.fault
             /\ saved.complete /\ saved.by = "live"

C17_Witness ==
    /\ last.op = "set_value" /\ last.fault
    /\ last.status = "IOError" /\ last.attempts = 1
    /\ last.opened /\ ~saved.complete

\* the mapping a mutating call leaves when its save completes
Resulting ==
    IF last.op = "set_value" THEN Put(last.loaded, last.k, last.v)
    ELSE IF last.op = "delete_value" THEN Del(last.loaded, last.k)
    ELSE EmptyDict

\* C18: a set_value, a delete_value of a present key or a clear_storage
\* makes exactly one save, which rewrites the whole file with the encryption
\* of the complete resulting mapping; the file is never left updated in
\* part: after the call it is the file as it was or that encryption
C18_LoadModifySave ==
    (/\ last.op \in {"set_value", "delete_value", "clear_storage"}
     /\ last.attempts > 0)
        => /\ last.attempts = 1
           /\ last.status = "ok" => load_data(fernet, disk).ret = Resulting
           /\ disk.exists => IsBlob(disk.bytes)

\* thread t's update is in the file's mapping
Kept(t) ==
    LET m == load_data(fernet, disk).ret
    IN  threads[t].key \in DOMAIN m /\ m[threads[t].key] = threads[t].value

\* thread t loaded a dict that already held thread u's update
Saw(t, u) ==
    /\ threads[u].key \in DOMAIN threads[t].loaded
    /\ threads[t].loaded[threads[u].key] = threads[u].value

\* C19: set_value takes no lock, so when two calls on distinct keys have
\* both returned and neither had loaded the other's update, the file does
\* not hold both updates: one writer's update is lost
C19_LostUpdate ==
    (/\ AllDone
     /\ \A t \in Threads : threads[t].status = "ok"
     /\ threads[1].key # threads[2].key
     /\ ~Saw(1, 2) /\ ~Saw(2, 1))
        => ~(Kept(1) /\ Kept(2))

C19_Witness ==
    /\ AllDone
    /\ \A t \in Threads : threads[t].status = "ok"
    /\ threads[1].key # threads[2].key
    /\ \E t \in Threads :
           DOMAIN load_data(fernet, disk).ret = {threads[t].key}

\* C20: a read reflects the file, not what the object loaded or saved
\* before: once another object with the same password has completed a save
\* on the same path, load_data() returns the mapping of that save and
\* get_value(k, d) its value for k, also when the reading object had loaded
\* or saved a different mapping before
C20_NoCache ==
    (/\ last.op \in {"load_data", "get_value"} /\ fernet # None
     /\ disk.exists /\ saved.by = "other" /\ saved.complete
     /\ saved.password = passwd)
        => /\ last.status = "ok"
           /\ last.op = "load_data" => last.ret = saved.data
           /\ last.op = "get_value"
                 => /\ last.loaded = saved.data
                    /\ last.val = IF last.k \in DOMAIN saved.data
                                  THEN saved.data[last.k] ELSE last.v

C20_Witness ==
    /\ last.op = "get_value" /\ last.status = "ok"
    /\ disk.exists /\ saved.by = "other" /\ saved.complete
    /\ saved.password = passwd
    /\ saved.stale
    /\ last.k \in DOMAIN saved.data
    /\ last.val = saved.data[last.k] /\ last.val # last.v

\* the derived keys and the passwords
Secrets == {_get_key(pw) : pw \in Passwords} \cup {<<pw>> : pw \in Passwords}

\* what a reader who holds no key learns from the file: the header of the
\* token, and whatever was written outside the ciphertext blocks and the MAC
Readable(bytes) ==
    {IF bytes[i].c.t = "hdr" THEN <<"version", "timestamp", "iv">>
     ELSE bytes[i].c.d :
        i \in {j \in 1..Len(bytes) :
                  bytes[j].a = "data" /\ bytes[j].c.t \notin {"ct", "mac", "junk"}}}

\* C21: in every state, what the last call returned is a stored value or a
\* mapping of stored values, never a key or a password, and nothing a reader
\* without the key learns from the file is a key or a password
C21_KeyNotExposed ==
    /\ last.val \in Values
    /\ last.ret \in Dicts
    /\ \A pw \in Passwords :
          /\ last.val # Str(pw)
          /\ \A k \in DOMAIN last.ret : last.ret[k] # Str(pw)
    /\ Readable(disk.bytes) \cap Secrets = {}

C21_Witness ==
    /\ fernet \in Secrets /\ passwd \in Passwords
    /\ last.op = "load_data" /\ last.status = "ok"
    /\ DOMAIN last.ret = DictKeys
    /\ Readable(disk.bytes) = {<<"version", "timestamp", "iv">>}

\* C22: initialize(p) on a path where a file exists opens nothing for
\* writing and leaves the file's bytes as they were, whether or not p is
\* the password the file was written with
C22_InitializeKeepsFile ==
    [][(last'.op = "initialize" /\ disk.exists)
          => /\ disk' = disk
             /\ last'.attempts = 0
             /\ last'.status = "ok"]_vars

C22_Witness ==
    /\ last.op = "initialize" /\ last.attempts = 0
    /\ saved.complete /\ saved.password # passwd
    /\ saved.data # EmptyDict
    /\ load_data(saved.key, disk).ret = saved.data

\* C23: set_value(k, v) on a file that does not decrypt under the store's
\* key, because it was written under another password or tampered with,
\* returns normally and leaves a file that decrypts under the store's key
\* to exactly {k: v}; what the file held is gone, and no other password
\* reads it any more
C23_SetValueOverwrites ==
    (/\ last.op = "set_value" /\ fernet # None
     /\ last.before \in {"other_password", "tampered"})
        => /\ last.status = "ok"
           /\ last.attempts = 1
           /\ last.loaded = EmptyDict
           /\ FernetDecrypt(fernet, disk.bytes).ok
           /\ load_data(fernet, disk).ret = Put(EmptyDict, last.k, last.v)
           /\ \A pw \in Passwords \ {passwd} :
                  /\ ~FernetDecrypt(_get_key(pw), disk.bytes).ok
                  /\ load_data(_get_key(pw), disk).ret = EmptyDict

C23_Witness ==
    /\ last.op = "set_value" /\ last.status = "ok"
    /\ last.before = "other_password"
    /\ load_data(fernet, disk).ret = Put(EmptyDict, last.k, last.v)
    /\ \A pw \in Passwords \ {passwd} :
           load_data(_get_key(pw), disk).ret = EmptyDict

\* C24: delete_value(k) on a file that does not decrypt under the store's
\* key returns normally and writes nothing, for every k: the file stays as
\* it was, and a file some password had completely written still decrypts
\* under that password's key to the mapping saved
C24_DeleteKeepsCiphertext ==
    [][(/\ last'.op = "delete_value" /\ fernet # None
        /\ disk.exists /\ ~FernetDecrypt(fernet, disk.bytes).ok)
          => /\ last'.status = "ok"
             /\ last'.attempts = 0
             /\ disk' = disk
             /\ saved' = saved
             /\ (saved.complete /\ ~flipped)
                   => /\ load_data(_get_key(saved.password), disk').status = "ok"
                      /\ load_data(_get_key(saved.password), disk').ret
                            = saved.data]_vars

C24_Witness ==
    /\ last.op = "delete_value" /\ last.status = "ok" /\ last.attempts = 0
    /\ fernet # None /\ last.before = "other_password"
    /\ saved.complete /\ last.k \in DOMAIN saved.data
    /\ load_data(fernet, disk).ret = EmptyDict
    /\ load_data(_get_key(saved.password), disk).ret = saved.data

\* C25: load_data and get_value never create, modify or remove the file
\* and never change the object's key or cipher, whether they return data,
\* return {} for a file that does not decrypt, find no file, or fail on an
\* object that is not initialized
C25_ReadsHaveNoEffect ==
    [][(last'.op \in {"load_data", "get_value"})
          => /\ disk' = disk
             /\ fernet' = fernet /\ key' = key
             /\ last'.attempts = 0 /\ ~last'.opened
             /\ saved' = saved /\ flipped' = flipped]_vars

C25_Witness ==
    /\ last.op = "get_value" /\ last.status = "ok"
    /\ fernet # None
    /\ disk.exists /\ flipped /\ ~FernetDecrypt(fernet, disk.bytes).ok
    /\ saved.data # EmptyDict /\ last.loaded = EmptyDict
    /\ last.val = last.v

\* C26: when initialize(p) raises an I/O error while creating the missing
\* file, the object already holds the key and the cipher of p: a following
\* load_data() returns {} and get_value(k, d) returns d, neither fails with
\* the "not initialized" error
C26_FailedInitialize ==
    (last.op = "initialize" /\ last.status = "IOError")
        => /\ last.attempts = 1
           /\ key = _get_key(last.password)
           /\ fernet = _get_key(last.password)
           /\ load_data(fernet, disk).status = "ok"
           /\ load_data(fernet, disk).ret = EmptyDict
           /\ \A k \in DictKeys, default \in Values :
                  /\ get_value(fernet, disk, k, default).status = "ok"
                  /\ get_value(fernet, disk, k, default).val = default

C26_Witness ==
    /\ last.op = "initialize" /\ last.status = "IOError"
    /\ last.before = ""
    /\ fernet = _get_key(last.password)
    /\ ~disk.exists
    /\ load_data(fernet, disk).status = "ok"

\* the .env is gone only after a set_value of the migration has returned
MigrationOrdered == (host.orig # "" /\ ~host.env.exists) => host.stored

\* the user's API key is in the .env or in the store
KeyKept ==
    host.orig # ""
        => \/ host.env.exists /\ EnvValue(host.env.line) = host.orig
           \/ get_value(_get_key("default_password"), disk, "gemini_api_key",
                        PyNone).val = Str(host.orig)

\* C27: on the first run the .env is removed only after set_value of the
\* API key has returned normally, and stays when initialize or set_value
\* fails, so that the API key is always in the .env or in the store
C27_MigrationOrder == MigrationOrdered /\ KeyKept

====
